---- MODULE Spec2Model ----
(***************************************************************************)
(* analyze_log.py: read a log file, ask the chat-completion endpoint to    *)
(* analyse it, pull the first {...} or [...] block out of the reply,       *)
(* print the result as JSON and optionally write it to a file.             *)
(*                                                                         *)
(* Texts (the log, the reply, the serialized JSON) are sequences of        *)
(* lexical tokens.  Whitespace between JSON tokens is not represented.     *)
(* A run starts when parse_args has returned: args.file, args.model and    *)
(* args.output are inputs.  Writes to standard output are assumed to       *)
(* succeed.  An exception nobody catches ends the interpreter with exit    *)
(* status 1; sys.exit(1) does the same.                                    *)
(***************************************************************************)
EXTENDS Integers, Sequences, FiniteSets, TLC

(* ------------------------------ bounds --------------------------------- *)
\* longest reply text handed to analyze_log_text in SpecExtract
MaxLen == 5
\* longest reply text the remote endpoint produces in Spec
MaxReplyLen == 2
\* longest log file content in Spec
MaxLogLen == 1

(* ------------------------------ texts ---------------------------------- *)
\* "k:" is the member prefix  "k":  of an object; "1" a number literal;
\* "w" a word of prose.
Alphabet == {"{", "}", "[", "]", "1", "k:", "w"}

TextsUpTo(n) == UNION {[1..k -> Alphabet] : k \in 0..n}

(* --------------------------- Python values ----------------------------- *)
None == [t |-> "None"]
PyStr(s) == [t |-> "str", s |-> s]
PyInt == [t |-> "int"]
PyList(items) == [t |-> "list", l |-> items]
PyDict(d) == [t |-> "dict", d |-> d]
EmptyDict == PyDict([x \in {} |-> None])
\* the exception json.loads raises for text that is not JSON
JSONDecodeError == [t |-> "JSONDecodeError"]

(* ------------------- re.search(r"(\{[\s\S]*\}|\[[\s\S]*\])") ----------- *)
Closer(open) == IF open = "{" THEN "}" ELSE "]"

\* the pattern can match at position i: an opening symbol followed,
\* anywhere later, by the closing symbol of the same kind
MatchesAt(text, i) ==
    /\ text[i] \in {"{", "["}
    /\ \E j \in (i+1)..Len(text) : text[j] = Closer(text[i])

\* re.search returns the leftmost position at which the pattern matches
MatchStart(text) ==
    CHOOSE i \in 1..Len(text) :
        /\ MatchesAt(text, i)
        /\ \A h \in 1..(i-1) : ~MatchesAt(text, h)

\* a non-greedy  [\s\S]*?  would stop at the first closing symbol
MatchEndLazy(text, i) ==
    CHOOSE j \in (i+1)..Len(text) :
        /\ text[j] = Closer(text[i])
        /\ \A h \in (i+1)..(j-1) : text[h] # Closer(text[i])

\* [\s\S]* is greedy: the match runs to the last closing symbol of the kind
MatchEnd(text, i) ==
    CHOOSE j \in (i+1)..Len(text) :
        /\ text[j] = Closer(text[i])
        /\ \A h \in (j+1)..Len(text) : text[h] # Closer(text[i])

re_search(text) ==
    IF \E i \in 1..Len(text) : MatchesAt(text, i)
    THEN [found |-> TRUE, start |-> MatchStart(text),
          end |-> MatchEnd(text, MatchStart(text))]
    ELSE [found |-> FALSE, start |-> 0, end |-> 0]

\* m.group(1)
Group1(text, m) == SubSeq(text, m.start, m.end)

(* ------------------------------ json.loads ----------------------------- *)
\*   value  ::=  1  |  [ ]  |  [ value ]  |  { }  |  { "k": value }
RECURSIVE json_loads(_)
json_loads(s) ==
    IF s = <<"1">> THEN PyInt
    ELSE IF Len(s) < 2 THEN JSONDecodeError
    ELSE LET inner == SubSeq(s, 2, Len(s) - 1) IN
         IF s[1] = "[" /\ s[Len(s)] = "]" THEN
              IF inner = <<>> THEN PyList(<<>>)
              ELSE LET v == json_loads(inner) IN
                   IF v = JSONDecodeError THEN JSONDecodeError
                   ELSE PyList(<<v>>)
         ELSE IF s[1] = "{" /\ s[Len(s)] = "}" THEN
              IF inner = <<>> THEN EmptyDict
              ELSE IF inner[1] # "k:" THEN JSONDecodeError
              ELSE LET v == json_loads(Tail(inner)) IN
                   IF v = JSONDecodeError THEN JSONDecodeError
                   ELSE PyDict([x \in {"k"} |-> v])
         ELSE JSONDecodeError

(* ---------------------- extract_first_json_block ----------------------- *)
\* a plausible slip: parse the whole reply instead of the matched block
extract_whole_text(text) ==
    LET m == re_search(text) IN
    IF ~m.found THEN None
    ELSE LET v == json_loads(text) IN
         IF v = JSONDecodeError THEN None ELSE v

extract_first_json_block(text) ==
    LET m == re_search(text) IN
    IF ~m.found THEN None
    ELSE LET v == json_loads(Group1(text, m)) IN
         IF v = JSONDecodeError THEN None ELSE v

(* ------------- json.dumps(result, indent=2, ensure_ascii=False) -------- *)
\* inside a string literal the quotes of a "k": token are escaped
Escaped(s) == [i \in 1..Len(s) |-> IF s[i] = "k:" THEN "\\\"k\\\":" ELSE s[i]]

KeyToken(key) == IF key = "k" THEN "k:" ELSE "raw_response:"

RECURSIVE json_dumps(_)
json_dumps(v) ==
    CASE v.t = "int"  -> <<"1">>
      [] v.t = "str"  -> <<"\"">> \o Escaped(v.s) \o <<"\"">>
      [] v.t = "list" -> IF v.l = <<>> THEN <<"[", "]">>
                         ELSE <<"[">> \o json_dumps(v.l[1]) \o <<"]">>
      [] v.t = "dict" -> IF DOMAIN v.d = {} THEN <<"{", "}">>
                         ELSE LET key == CHOOSE k \in DOMAIN v.d : TRUE IN
                              <<"{", KeyToken(key)>> \o json_dumps(v.d[key]) \o <<"}">>

(* ------------------------------ the run -------------------------------- *)
VARIABLES
    pc,            \* position in main
    args,          \* the parsed command line: file, model, output
    file_state,    \* the path args.file: missing, unopenable, undecodable, readable
    file_content,  \* what args.file holds when it is readable
    api_key,       \* os.getenv("OPENAI_API_KEY"): None, or a string
    log_text,      \* main's log_text
    client,        \* TRUE once OpenAI(api_key=...) was instantiated
    requests,      \* the completion requests issued to the endpoint
    resp,          \* the response object of the completion request
    resp_text,     \* what call_openai_chat returned
    block,         \* m.group(1) in extract_first_json_block (None: no match)
    result,        \* what analyze_log_text returned
    pretty,        \* main's pretty
    stdout,        \* the print calls so far
    out_file,      \* the file at args.output
    write_outcome, \* how writing args.output went
    exit_code,     \* the process's exit status once pc = "exited"
    raised         \* the exception that ended the run uncaught, or "none"

vars == <<pc, args, file_state, file_content, api_key, log_text, client, requests,
          resp, resp_text, block, result, pretty, stdout, out_file, write_outcome,
          exit_code, raised>>

env == <<args, file_state, file_content, api_key>>

\* one print call: the text, then the line terminator
Line(s) == [s |-> s, end |-> "\n"]

\* a value counts as true in  if not api_key  /  if args.output
Truthy(v) == v.t = "str" /\ v.s # <<>>

LogAlphabet == {"w", "{"}
LogTexts == UNION {[1..k -> LogAlphabet] : k \in 0..MaxLogLen}
Models == {"gpt-4o-mini", "gpt-4o"}
OutputArgs == {None, PyStr(<<>>), PyStr(<<"out.json">>)}
OldContent == <<"w">>

FileStates == {"missing", "unopenable", "undecodable", "readable"}

Init ==
    /\ pc = "check_file"
    /\ args \in [file : {"dummy_error.log"}, model : Models, output : OutputArgs]
    /\ file_state \in FileStates
    /\ file_content \in (IF file_state = "readable" THEN LogTexts ELSE {<<>>})
    /\ api_key \in {None, PyStr(<<>>), PyStr(<<"sk-key">>)}
    /\ log_text = <<>>
    /\ client = FALSE
    /\ requests = <<>>
    /\ resp = None
    /\ resp_text = None
    /\ block = None
    /\ result = None
    /\ pretty = <<>>
    /\ stdout = <<>>
    /\ out_file = [exists |-> TRUE, content |-> OldContent]
    /\ write_outcome = "none"
    /\ exit_code = -1
    /\ raised = "none"

\* sys.exit(code)
Exit(code) == pc' = "exited" /\ exit_code' = code /\ UNCHANGED raised

\* an exception nobody catches: traceback, exit status 1
Uncaught(e) == pc' = "exited" /\ exit_code' = 1 /\ raised' = e

FileNotFoundMsg == <<"ERROR: log file '", args.file, "' not found.">>
MissingKeyMsg == <<"ERROR: Please set the OPENAI_API_KEY environment variable.">>
WroteMsg == <<"Wrote analysis JSON to: ">> \o args.output.s
FailedMsg == <<"Failed to write output file ">> \o args.output.s

(* ---------------------- main, lines 105-107 ---------------------------- *)
\* a plausible slip: the diagnostic is printed but the run goes on
CheckLogFileNoExit ==
    /\ pc = "check_file"
    /\ IF file_state = "missing"
       THEN stdout' = Append(stdout, Line(FileNotFoundMsg))
       ELSE UNCHANGED stdout
    /\ pc' = "read"
    /\ UNCHANGED <<env, log_text, client, requests, resp, resp_text, block, result,
                   pretty, out_file, write_outcome, exit_code, raised>>

\* if not os.path.exists(args.file): print(...); sys.exit(1)
CheckLogFile ==
    /\ pc = "check_file"
    /\ IF file_state = "missing"
       THEN /\ stdout' = Append(stdout, Line(FileNotFoundMsg))
            /\ Exit(1)
       ELSE /\ pc' = "read"
            /\ UNCHANGED <<stdout, exit_code, raised>>
    /\ UNCHANGED <<env, log_text, client, requests, resp, resp_text, block, result,
                   pretty, out_file, write_outcome>>

(* ---------------------- main, lines 109-110 ---------------------------- *)
\* with open(args.file, "r", encoding="utf-8") as fh: log_text = fh.read()
ReadLogFile ==
    /\ pc = "read"
    /\ CASE file_state = "readable" ->
              /\ log_text' = file_content
              /\ pc' = "check_key"
              /\ UNCHANGED <<exit_code, raised>>
         [] file_state = "missing" ->
              /\ Uncaught("FileNotFoundError")
              /\ UNCHANGED log_text
         [] file_state = "unopenable" ->
              /\ Uncaught("OSError")
              /\ UNCHANGED log_text
         [] file_state = "undecodable" ->
              /\ Uncaught("UnicodeDecodeError")
              /\ UNCHANGED log_text
    /\ UNCHANGED <<env, client, requests, resp, resp_text, block, result, pretty,
                   stdout, out_file, write_outcome>>

(* ---------------------- analyze_log_text, lines 74-87 ------------------ *)
SystemPrompt == <<"You are an assistant that analyzes application error logs. ...">>
UserPrompt(text) == <<"Analyze the following log. Output JSON only.\n\nLOG:\n">> \o text

Messages(text) ==
    << [role |-> "system", content |-> SystemPrompt],
       [role |-> "user", content |-> UserPrompt(text)] >>

(* ---------------------- call_openai_chat, lines 34-40 ------------------ *)
\* a plausible slip: the message is printed but sys.exit(1) is missing
CheckApiKeyNoExit ==
    /\ pc = "check_key"
    /\ IF ~Truthy(api_key)
       THEN stdout' = Append(stdout, Line(MissingKeyMsg))
       ELSE UNCHANGED stdout
    /\ client' = TRUE
    /\ pc' = "request"
    /\ UNCHANGED <<env, log_text, requests, resp, resp_text, block, result, pretty,
                   out_file, write_outcome, exit_code, raised>>

\* a plausible slip: sys.exit() without a status
CheckApiKeyExitZero ==
    /\ pc = "check_key"
    /\ IF ~Truthy(api_key)
       THEN /\ stdout' = Append(stdout, Line(MissingKeyMsg))
            /\ Exit(0)
            /\ UNCHANGED client
       ELSE /\ client' = TRUE
            /\ pc' = "request"
            /\ UNCHANGED <<stdout, exit_code, raised>>
    /\ UNCHANGED <<env, log_text, requests, resp, resp_text, block, result, pretty,
                   out_file, write_outcome>>

\* api_key = os.getenv(...); if not api_key: print(...); sys.exit(1)
\* client = OpenAI(api_key=api_key)
CheckApiKey ==
    /\ pc = "check_key"
    /\ IF ~Truthy(api_key)
       THEN /\ stdout' = Append(stdout, Line(MissingKeyMsg))
            /\ Exit(1)
            /\ UNCHANGED client
       ELSE /\ client' = TRUE
            /\ pc' = "request"
            /\ UNCHANGED <<stdout, exit_code, raised>>
    /\ UNCHANGED <<env, log_text, requests, resp, resp_text, block, result, pretty,
                   out_file, write_outcome>>

(* ---------------------- call_openai_chat, lines 43-58 ------------------ *)
Request(messages, model) ==
    [model |-> model, messages |-> messages, temperature |-> 0, max_tokens |-> 1500]

\* what the endpoint may answer.  "object": resp.choices[0].message.content can
\* be read, and is a string or None; "dict": only resp["choices"][0]["message"]
\* ["content"] can be read; "other": neither can, and str(resp) is repr.
Contents == {None} \cup {PyStr(s) : s \in TextsUpTo(MaxReplyLen)}
Responses ==
    [shape : {"object", "dict"}, content : Contents, repr : {<<>>}]
      \cup [shape : {"other"}, content : {None}, repr : TextsUpTo(MaxReplyLen)]

\* lines 50-58
ResponseContent(r) ==
    IF r.shape = "object" THEN r.content
    ELSE IF r.shape = "dict" THEN r.content
    ELSE PyStr(r.repr)

\* a plausible slip: a failed request is issued a second time
CreateCompletionRetry ==
    /\ pc = "request"
    /\ \/ /\ requests' = Append(Append(requests, Request(Messages(log_text), args.model)),
                                Request(Messages(log_text), args.model))
          /\ Uncaught("APIError")
          /\ UNCHANGED <<resp, resp_text>>
       \/ \E r \in Responses :
            /\ requests' = Append(requests, Request(Messages(log_text), args.model))
            /\ resp' = r
            /\ resp_text' = ResponseContent(r)
            /\ pc' = "extract"
            /\ UNCHANGED <<exit_code, raised>>
    /\ UNCHANGED <<env, log_text, client, block, result, pretty, stdout, out_file,
                   write_outcome>>

\* resp = client.chat.completions.create(...): one request; it raises, or it
\* returns a response whose content is handed back
CreateCompletion ==
    /\ pc = "request"
    /\ requests' = Append(requests, Request(Messages(log_text), args.model))
    /\ \/ /\ Uncaught("APIError")
          /\ UNCHANGED <<resp, resp_text>>
       \/ \E r \in Responses :
            /\ resp' = r
            /\ resp_text' = ResponseContent(r)
            /\ pc' = "extract"
            /\ UNCHANGED <<exit_code, raised>>
    /\ UNCHANGED <<env, log_text, client, block, result, pretty, stdout, out_file,
                   write_outcome>>

(* ---------------------- analyze_log_text, lines 89-95 ------------------ *)
\* a plausible slip: the reply is cut to its first token (resp_text[:1])
FallbackCut(text) ==
    PyDict([x \in {"raw_response"} |->
               PyStr(IF Len(text) <= 1 THEN text ELSE <<text[1]>>)])

\* {"raw_response": resp_text}
Fallback(text) == PyDict([x \in {"raw_response"} |-> PyStr(text)])

\* extract_first_json_block, then the fallback.  re.search raises TypeError
\* when resp_text is None, and nothing catches it.
AnalyzeLogText ==
    /\ pc = "extract"
    /\ IF resp_text.t # "str"
       THEN /\ Uncaught("TypeError")
            /\ UNCHANGED <<block, result>>
       ELSE LET m == re_search(resp_text.s)
                parsed == extract_first_json_block(resp_text.s)
            IN  /\ block' = IF m.found THEN PyStr(Group1(resp_text.s, m)) ELSE None
                /\ result' = IF parsed # None THEN parsed ELSE Fallback(resp_text.s)
                /\ pc' = "print"
                /\ UNCHANGED <<exit_code, raised>>
    /\ UNCHANGED <<env, log_text, client, requests, resp, resp_text, pretty, stdout,
                   out_file, write_outcome>>

(* ---------------------- main, lines 114-116 ---------------------------- *)
\* pretty = json.dumps(result, ...); print(pretty); main returns when no
\* output path was given
PrintResult ==
    /\ pc = "print"
    /\ pretty' = json_dumps(result)
    /\ stdout' = Append(stdout, Line(json_dumps(result)))
    /\ IF Truthy(args.output)
       THEN pc' = "write" /\ UNCHANGED <<exit_code, raised>>
       ELSE Exit(0)
    /\ UNCHANGED <<env, log_text, client, requests, resp, resp_text, block, result,
                   out_file, write_outcome>>

(* ---------------------- main, lines 118-125 ---------------------------- *)
\* a plausible slip: no try/except around the write
WriteOutputUncaught ==
    /\ pc = "write"
    /\ \/ /\ write_outcome' = "ok"
          /\ out_file' = [exists |-> TRUE, content |-> pretty]
          /\ stdout' = Append(stdout, Line(WroteMsg))
          /\ Exit(0)
       \/ /\ write_outcome' = "open_failed"
          /\ UNCHANGED <<out_file, stdout>>
          /\ Uncaught("OSError")
       \/ /\ write_outcome' = "write_failed"
          /\ out_file' = [exists |-> TRUE, content |-> <<>>]
          /\ UNCHANGED stdout
          /\ Uncaught("OSError")
    /\ UNCHANGED <<env, log_text, client, requests, resp, resp_text, block, result,
                   pretty>>

\* a plausible slip: the file gets the text with the newline print adds
WriteOutputWithNewline ==
    /\ pc = "write"
    /\ \/ /\ write_outcome' = "ok"
          /\ out_file' = [exists |-> TRUE, content |-> pretty \o <<"\n">>]
          /\ stdout' = Append(stdout, Line(WroteMsg))
       \/ /\ write_outcome' = "open_failed"
          /\ UNCHANGED out_file
          /\ stdout' = Append(stdout, Line(FailedMsg \o <<": OSError">>))
       \/ /\ write_outcome' = "write_failed"
          /\ out_file' = [exists |-> TRUE, content |-> <<>>]
          /\ stdout' = Append(stdout, Line(FailedMsg \o <<": OSError">>))
    /\ Exit(0)
    /\ UNCHANGED <<env, log_text, client, requests, resp, resp_text, block, result,
                   pretty>>

\* open(out_path, "w") truncates the file and ofh.write(pretty) fills it; when
\* open fails the file is as it was, when the write fails it is left empty.
\* Either failure is caught and reported; main returns.
WriteOutput ==
    /\ pc = "write"
    /\ \/ /\ write_outcome' = "ok"
          /\ out_file' = [exists |-> TRUE, content |-> pretty]
          /\ stdout' = Append(stdout, Line(WroteMsg))
       \/ /\ write_outcome' = "open_failed"
          /\ UNCHANGED out_file
          /\ stdout' = Append(stdout, Line(FailedMsg \o <<": OSError">>))
       \/ /\ write_outcome' = "write_failed"
          /\ out_file' = [exists |-> TRUE, content |-> <<>>]
          /\ stdout' = Append(stdout, Line(FailedMsg \o <<": OSError">>))
    /\ Exit(0)
    /\ UNCHANGED <<env, log_text, client, requests, resp, resp_text, block, result,
                   pretty>>

Next ==
    \/ CheckLogFile
    \/ ReadLogFile
    \/ CheckApiKey
    \/ CreateCompletion
    \/ AnalyzeLogText
    \/ PrintResult
    \/ WriteOutput

Spec == Init /\ [][Next]_vars

(* ------------- analyze_log_text on a stubbed remote call ---------------- *)
\* the state in which call_openai_chat has just returned the reply text
InitExtract ==
    /\ pc = "extract"
    /\ args = [file |-> "dummy_error.log", model |-> "gpt-4o-mini", output |-> None]
    /\ file_state = "readable"
    /\ file_content = <<"w">>
    /\ api_key = PyStr(<<"sk-key">>)
    /\ log_text = file_content
    /\ client = TRUE
    /\ requests = <<Request(Messages(log_text), args.model)>>
    /\ \E s \in TextsUpTo(MaxLen) :
          /\ resp = [shape |-> "object", content |-> PyStr(s), repr |-> <<>>]
          /\ resp_text = PyStr(s)
    /\ block = None
    /\ result = None
    /\ pretty = <<>>
    /\ stdout = <<>>
    /\ out_file = [exists |-> TRUE, content |-> OldContent]
    /\ write_outcome = "none"
    /\ exit_code = -1
    /\ raised = "none"

NextExtract == AnalyzeLogText

SpecExtract == InitExtract /\ [][NextExtract]_vars

(* ======================= properties of the claims ====================== *)
IsBrace(c) == c \in {"{", "}", "[", "]"}
NoBraces(text) == \A i \in 1..Len(text) : ~IsBrace(text[i])
\* analyze_log_text has returned
Analyzed == pc = "print"
ReplyText == resp_text.s

\* C1 (as stated): whenever extraction yields the not-found sentinel, and in
\* particular when the reply holds no brace or bracket, analyze returns the
\* object with the single key rawResponse whose value is the raw reply text.
C1_Original ==
    Analyzed =>
        /\ extract_first_json_block(ReplyText) = None
              => result = PyDict([x \in {"rawResponse"} |-> PyStr(ReplyText)])
        /\ NoBraces(ReplyText)
              => result = PyDict([x \in {"rawResponse"} |-> PyStr(ReplyText)])

\* C1 (amended): whenever extraction yields the not-found sentinel, and in
\* particular when the reply holds no brace or bracket, analyze returns the
\* object with the single key raw_response whose value is exactly the full
\* raw reply text.
C1_FallbackRawResponse ==
    Analyzed =>
        /\ extract_first_json_block(ReplyText) = None
              => /\ result.t = "dict"
                 /\ DOMAIN result.d = {"raw_response"}
                 /\ result.d["raw_response"] = PyStr(ReplyText)
        /\ NoBraces(ReplyText)
              => /\ block = None
                 /\ result.t = "dict"
                 /\ DOMAIN result.d = {"raw_response"}
                 /\ result.d["raw_response"] = PyStr(ReplyText)

C1_Witness ==
    /\ Analyzed
    /\ ReplyText = <<"w", "1", "w">>
    /\ result = PyDict([x \in {"raw_response"} |-> PyStr(<<"w", "1", "w">>)])

\* the reply is  pre . obj . post  with obj = text[i..j] a well-formed object
IsObjectAt(text, i, j) == i < j /\ json_loads(SubSeq(text, i, j)).t = "dict"
\* no well-formed JSON object or array lies inside text[a..b]
NoJsonIn(text, a, b) ==
    \A x \in a..b : \A y \in x..b :
        json_loads(SubSeq(text, x, y)).t \notin {"dict", "list"}

\* C2 (as stated): when the reply is one well-formed JSON object, optionally
\* preceded and followed by arbitrary prose, extraction returns the value of
\* parsing that object alone.
C2_Original ==
    Analyzed =>
        \A i \in 1..Len(ReplyText) : \A j \in 1..Len(ReplyText) :
            ( /\ IsObjectAt(ReplyText, i, j)
              /\ NoJsonIn(ReplyText, 1, i - 1)
              /\ NoJsonIn(ReplyText, j + 1, Len(ReplyText)) )
            => result = json_loads(SubSeq(ReplyText, i, j))

\* C2 (amended): when the reply is one well-formed JSON object, preceded by
\* prose that holds no opening brace and no opening bracket with a closing
\* bracket anywhere after it in the reply, and followed by prose that holds no
\* closing brace, extraction returns the value of parsing that object alone.
C2_ObjectInCleanProse ==
    Analyzed =>
        \A i \in 1..Len(ReplyText) : \A j \in 1..Len(ReplyText) :
            ( /\ IsObjectAt(ReplyText, i, j)
              /\ \A h \in 1..(i-1) :
                    /\ ReplyText[h] # "{"
                    /\ ReplyText[h] = "["
                          => \A g \in (h+1)..Len(ReplyText) : ReplyText[g] # "]"
              /\ \A h \in (j+1)..Len(ReplyText) : ReplyText[h] # "}" )
            => /\ block = PyStr(SubSeq(ReplyText, i, j))
               /\ result = json_loads(SubSeq(ReplyText, i, j))

C2_Witness ==
    /\ Analyzed
    /\ ReplyText = <<"w", "{", "k:", "1", "}">>
    /\ result = PyDict([x \in {"k"} |-> PyInt])

HasOpener(text) == \E i \in 1..Len(text) : text[i] \in {"{", "["}
FirstOpener(text) ==
    CHOOSE i \in 1..Len(text) :
        text[i] \in {"{", "["} /\ \A h \in 1..(i-1) : text[h] \notin {"{", "["}
ClosedLater(text, i) == \E j \in (i+1)..Len(text) : text[j] = Closer(text[i])
LastCloser(text, i) ==
    CHOOSE j \in (i+1)..Len(text) :
        text[j] = Closer(text[i]) /\ \A h \in (j+1)..Len(text) : text[h] # Closer(text[i])
HasClosedOpener(text) ==
    \E i \in 1..Len(text) : text[i] \in {"{", "["} /\ ClosedLater(text, i)
FirstClosedOpener(text) ==
    CHOOSE i \in 1..Len(text) :
        /\ text[i] \in {"{", "["} /\ ClosedLater(text, i)
        /\ \A h \in 1..(i-1) : ~(text[h] \in {"{", "["} /\ ClosedLater(text, h))
\* the outcome of parsing exactly the span text[i..j]
SpanOutcome(text, i, j) ==
    /\ block = PyStr(SubSeq(text, i, j))
    /\ result = IF json_loads(SubSeq(text, i, j)) = JSONDecodeError
                THEN PyDict([x \in {"raw_response"} |-> PyStr(text)])
                ELSE json_loads(SubSeq(text, i, j))
NotFoundOutcome(text) ==
    /\ block = None
    /\ result = PyDict([x \in {"raw_response"} |-> PyStr(text)])
\* two well-formed objects with prose, and nothing else, between them
TwoObjects(text) ==
    \E a \in 1..Len(text) : \E b \in (a+2)..Len(text) :
        /\ IsObjectAt(text, 1, a)
        /\ IsObjectAt(text, b, Len(text))
        /\ NoBraces(SubSeq(text, a + 1, b - 1))

\* C10 (as stated): the span selected always runs from the first opening brace
\* or bracket of the reply to the last closing symbol of the matching kind, and
\* only that span is parsed; when it is not valid JSON the result is the
\* fallback object.
C10_Original ==
    Analyzed =>
        IF HasOpener(ReplyText) /\ ClosedLater(ReplyText, FirstOpener(ReplyText))
        THEN SpanOutcome(ReplyText, FirstOpener(ReplyText),
                         LastCloser(ReplyText, FirstOpener(ReplyText)))
        ELSE NotFoundOutcome(ReplyText)

\* C10 (amended): the span selected runs from the first opening brace or
\* bracket that has a closing symbol of its own kind somewhere after it to the
\* last closing symbol of that kind, and only that span is parsed; when it is
\* not valid JSON (two separate objects with prose between them, say) the
\* result is the fallback object, also when a shorter well-formed fragment
\* lies inside the reply.
C10_LargestSpan ==
    Analyzed =>
        /\ IF HasClosedOpener(ReplyText)
           THEN SpanOutcome(ReplyText, FirstClosedOpener(ReplyText),
                            LastCloser(ReplyText, FirstClosedOpener(ReplyText)))
           ELSE NotFoundOutcome(ReplyText)
        /\ TwoObjects(ReplyText)
              => result = PyDict([x \in {"raw_response"} |-> PyStr(ReplyText)])

C10_Witness ==
    /\ Analyzed
    /\ ReplyText = <<"{", "}", "w", "{", "}">>
    /\ TwoObjects(ReplyText)
    /\ block = PyStr(ReplyText)
    /\ result = PyDict([x \in {"raw_response"} |-> PyStr(ReplyText)])

(* ------------------------- claims about a run -------------------------- *)
Exited == pc = "exited"
NoCredential == ~Truthy(api_key)
OutFileAtStart == [exists |-> TRUE, content |-> OldContent]
\* the completion request returned a response
CallCompleted == resp # None
WriteFailed == write_outcome \in {"open_failed", "write_failed"}

C4_MissingFileStopsRun ==
    file_state = "missing" =>
        /\ pc \in {"check_file", "exited"}
        /\ ~Exited => ENABLED Next
        /\ Exited =>
              /\ exit_code = 1
              /\ raised = "none"
              /\ stdout = <<Line(FileNotFoundMsg)>>
        /\ client = FALSE
        /\ requests = <<>>
        /\ result = None
        /\ pretty = <<>>
        /\ out_file = OutFileAtStart
        /\ write_outcome = "none"

C4_Witness ==
    /\ file_state = "missing"
    /\ Exited
    /\ Truthy(api_key)
    /\ Truthy(args.output)
    /\ exit_code = 1

\* C5 (as stated): whatever call_openai_chat returns after a completed call
\* (a text, null content, or the stringified response), analyze ends normally
\* with a JSON-serializable result and raises nothing.
C5_NeverRaises ==
    (CallCompleted /\ pc # "extract") =>
        /\ raised = "none"
        /\ result.t \in {"dict", "list"}

\* C6: when an output path is given and writing it fails, the serialized
\* result was printed in full before the write was attempted, the failure is
\* caught and reported as a message, and the run ends normally with the exit
\* code of a run whose write succeeded.
C6_WriteFailureRecovered ==
    /\ pc = "write" => stdout = <<Line(json_dumps(result))>>
    /\ WriteFailed =>
          /\ Exited
          /\ raised = "none"
          /\ exit_code = 0
          /\ Len(stdout) = 2
          /\ stdout[1] = Line(json_dumps(result))
          /\ stdout[2] = Line(FailedMsg \o <<": OSError">>)
    /\ write_outcome = "ok" => Exited /\ exit_code = 0

C6_Witness ==
    /\ write_outcome = "write_failed"
    /\ Exited
    /\ exit_code = 0
    /\ out_file.content = <<>>
    /\ "raw_response" \in DOMAIN result.d

\* C7 (as stated): exit code 1 when the log file is missing or the credential
\* is missing, exit code 0 in every other run.
C7_Original ==
    Exited =>
        exit_code = IF file_state = "missing" \/ NoCredential THEN 1 ELSE 0

\* C7 (amended): exit code 1 when the log file is missing or the credential is
\* missing, and also when an exception goes uncaught: the log file exists but
\* cannot be opened or decoded, the remote call raises, or the content of the
\* reply is null.  Exit code 0 in every other run, the runs whose result is
\* the raw-text fallback object included.
C7_ExitCodes ==
    Exited =>
        /\ exit_code = IF \/ file_state # "readable"
                          \/ NoCredential
                          \/ raised = "APIError"
                          \/ (CallCompleted /\ resp_text = None)
                       THEN 1 ELSE 0
        /\ (result.t = "dict" /\ "raw_response" \in DOMAIN result.d) => exit_code = 0

C7_Witness ==
    /\ Exited
    /\ exit_code = 0
    /\ result = PyDict([x \in {"raw_response"} |-> PyStr(<<"w">>)])

\* C8 (as stated): at most one completion request per run; exactly one in
\* every run where the log file exists and a credential is resolvable; when
\* the request raises it is not retried or suppressed, the run dies and
\* nothing is printed or written.
C8_Original ==
    /\ Len(requests) <= 1
    /\ (Exited /\ file_state # "missing" /\ ~NoCredential) => Len(requests) = 1
    /\ raised = "APIError" =>
          /\ Exited
          /\ exit_code = 1
          /\ Len(requests) = 1
          /\ stdout = <<>>
          /\ out_file = OutFileAtStart

\* C8 (amended): at most one completion request per run; exactly one in every
\* run where the log file exists and is read successfully and a credential is
\* resolvable; when the request raises it is not retried or suppressed, the
\* run dies and nothing is printed or written.
C8_OneRequest ==
    /\ Len(requests) <= 1
    /\ (Exited /\ file_state = "readable" /\ ~NoCredential) => Len(requests) = 1
    /\ raised = "APIError" =>
          /\ Exited
          /\ exit_code = 1
          /\ Len(requests) = 1
          /\ stdout = <<>>
          /\ out_file = OutFileAtStart
          /\ write_outcome = "none"

C8_Witness ==
    /\ raised = "APIError"
    /\ Exited
    /\ Truthy(args.output)
    /\ Len(requests) = 1

====
